---- MODULE Spec2Model ----
(***************************************************************************)
(* Order fulfilment and claim resolution workflow of the Valio Aimo        *)
(* backend (Backend/app/routers).  Every request handler is one action     *)
(* over the relational store; the store's tables are the variables.        *)
(*                                                                         *)
(* Money is kept in thousandths of a euro (1.50 EUR = 1500), so that the   *)
(* 10 % refund rule and the 24 % VAT are exact on the amounts used here.   *)
(* Order and claim identifiers are positions in their tables.  The rows    *)
(* of the child tables (order_lines, order_substitutes, order_changes,     *)
(* order_tracking, messages, invoices, claim_processing) are kept with     *)
(* the order or claim their foreign key names, in insertion order: every   *)
(* query of the handlers filters on that key.  NoAmount is a NULL amount.  *)
(***************************************************************************)
EXTENDS Integers, Sequences, FiniteSets, TLC

\* ---------------------------------------------------------------- bounds
MaxOrders == 1
MaxClaims == 1
MaxInvoices == 4
MaxTracking == 3
MaxMessages == 2
MaxDeleted == 1
MaxSessions == 2

\* ------------------------------------------------------------ vocabulary
OrderStatus ==
    {"placed", "under_risk", "waiting_for_customer_action", "picking",
     "delivering", "delivered", "cancelled"}

LineStatus == {"OK", "PARTIAL", "ZERO", "REPLACED"}

ClaimStatus ==
    {"open", "ai_processing", "manual_review", "approved", "rejected", "resolved"}

InvoiceType == {"order", "refund", "modification"}

InvoiceStatus == {"pending", "paid", "refunded", "cancelled"}

MessageSenderType == {"customer", "admin", "ai"}

\* ------------------------------------------------------- the environment
\* Product catalogue rows the requests refer to, with their unit prices.
Products == {"p1", "p2", "p3"}

Price(p) == CASE p = "p1" -> 1500
              [] p = "p2" -> 2000
              [] p = "p3" -> 1000

\* c1 shops and files claims; c2 is another customer, whose cart is empty
Customers == {"c1", "c2"}

Admins == {"admin1"}

NoAmount == 0 - 1

\* Statuses an administrator sends to update_order_status.
StatusInputs == {"placed", "waiting_for_customer_action", "delivered", "cancelled"}

\* Carts a customer checks out: items with quantity and ranked substitutes.
\* POST /customer/cart/items takes any quantity, zero too.
Carts ==
    { << [product_code |-> "p1", quantity |-> 10,
          substitutes |-> << [substitute_product_code |-> "p2", priority |-> 1],
                             [substitute_product_code |-> "p3", priority |-> 2] >>] >>,
      << [product_code |-> "p3", quantity |-> 1, substitutes |-> << >>],
         [product_code |-> "p2", quantity |-> 2,
          substitutes |-> << [substitute_product_code |-> "p3", priority |-> 1] >>] >>,
      << [product_code |-> "p2", quantity |-> 0,
          substitutes |-> << [substitute_product_code |-> "p3", priority |-> 1] >>] >> }

\* the cart the customer has at checkout
CartOf(customer) == IF customer = "c1" THEN Carts ELSE { << >> }

\* longest cart a customer checks out
MaxLines == CHOOSE n \in {Len(c) : c \in Carts} : \A c \in Carts : Len(c) <= n

\* refund_amount query parameter of approve_claim (NoAmount: omitted)
RefundInputs == {NoAmount, 12000}

\* description form field of create_claim ("": the field is missing)
Descriptions == {"", "damaged"}

\* uploaded evidence of create_claim: the content type of each file
Uploads == { <<"image">> }

\* reason query parameter of reject_claim, as sequences of characters
ReasonInputs == { << >>, <<" ">>, <<"o", "k">> }

\* What the vision model call does, as far as process_claim can tell:
\*   no_api_key     OPENAI_API_KEY is not set
\*   api_error      the client call raises (network error, timeout, ...)
\*   not_an_object  the content is valid JSON but not an object
\*   text           the content holds no parsable JSON
\*   json           the content is a JSON object with these fields
AIResponse(kind, decision, confidence, approved_word, rejected_word) ==
    [kind |-> kind, decision |-> decision, confidence |-> confidence,
     mentions_approved |-> approved_word, mentions_rejected |-> rejected_word]

AIResponses ==
    { AIResponse(k, "", 0, FALSE, FALSE) :
        k \in {"no_api_key", "api_error", "not_an_object"} }
    \cup { AIResponse("text", "", 0, a, r) : a \in BOOLEAN, r \in BOOLEAN }
    \cup { AIResponse("json", d, 90, FALSE, FALSE) :
        d \in {"approved", "manual_review_needed", "escalate"} }
    \cup { AIResponse("json", "rejected", 150, FALSE, FALSE) }

\* ------------------------------------------------------------------ state
VARIABLES
    products,   \* product codes present in the products table
    orders,     \* orders, each with the rows that reference it
    claims,     \* claims, each with the rows that reference it
    sessions    \* requests in flight: what each has read and not yet committed

vars == <<products, orders, claims, sessions>>

\* ---------------------------------------------------------------- helpers
RECURSIVE SumSeq(_)
SumSeq(s) == IF s = << >> THEN 0 ELSE Head(s) + SumSeq(Tail(s))

RECURSIVE Flatten(_)
Flatten(ss) == IF ss = << >> THEN << >> ELSE Head(ss) \o Flatten(Tail(ss))

Abs(x) == IF x < 0 THEN 0 - x ELSE x

\* Query(...).first(): of the rows that match (hits, as positions in
\* insertion order) the first one; 0 when no row matches.
First(hits) ==
    IF hits = {} THEN 0 ELSE CHOOSE i \in hits : \A j \in hits : i <= j

\* rows in the invoices, order_tracking and messages tables
InvoiceCount ==
    SumSeq([o \in 1..Len(orders) |-> Len(orders[o].invoices)])
    + SumSeq([k \in 1..Len(claims) |-> Len(claims[k].invoices)])

TrackingCount == SumSeq([o \in 1..Len(orders) |-> Len(orders[o].tracking)])

MessageCount ==
    SumSeq([o \in 1..Len(orders) |-> Len(orders[o].messages)])
    + SumSeq([k \in 1..Len(claims) |-> Len(claims[k].messages)])

\* total = sum of ordered_qty * price over the rows whose product exists
LinesTotal(lines, catalogue) ==
    SumSeq([i \in 1..Len(lines) |->
              IF lines[i].product_code \in catalogue
                THEN lines[i].ordered_qty * Price(lines[i].product_code)
                ELSE 0])

\* (faulty variant: the items are priced without the line's quantity)
LineItems_unit(lines, catalogue) ==
    LET kept == SelectSeq(lines, LAMBDA l : l.product_code \in catalogue)
    IN [i \in 1..Len(kept) |->
          [product_code |-> kept[i].product_code,
           quantity |-> 1,
           unit_price |-> Price(kept[i].product_code),
           total_price |-> Price(kept[i].product_code)]]

\* one InvoiceItem per row whose product exists
LineItems(lines, catalogue) ==
    LET kept == SelectSeq(lines, LAMBDA l : l.product_code \in catalogue)
    IN [i \in 1..Len(kept) |->
          [product_code |-> kept[i].product_code,
           quantity |-> kept[i].ordered_qty,
           unit_price |-> Price(kept[i].product_code),
           total_price |-> kept[i].ordered_qty * Price(kept[i].product_code)]]

\* 24 % VAT
Vat(total) == (total * 24) \div 100

OrderInvoice(lines, catalogue, note) ==
    [invoice_type |-> "order", status |-> "pending",
     total_amount |-> LinesTotal(lines, catalogue),
     tax_amount |-> Vat(LinesTotal(lines, catalogue)),
     items |-> LineItems(lines, catalogue),
     notes |-> note]

\* (faulty variant: only ORDER invoices are voided)
VoidInvoices_order_only(table, note) ==
    [i \in 1..Len(table) |->
        IF table[i].status # "cancelled" /\ table[i].invoice_type = "order"
          THEN [table[i] EXCEPT !.status = "cancelled", !.notes = @ \o <<note>>]
          ELSE table[i]]

\* mark every non-cancelled invoice of the order CANCELLED, with a note
VoidInvoices(table, note) ==
    [i \in 1..Len(table) |->
        IF table[i].status # "cancelled"
          THEN [table[i] EXCEPT !.status = "cancelled", !.notes = @ \o <<note>>]
          ELSE table[i]]

\* the order's first non-cancelled ORDER invoice (0: none)
ActiveOrderInvoice(table) ==
    First({i \in 1..Len(table) :
              table[i].invoice_type = "order" /\ table[i].status # "cancelled"})

\* (faulty variant: the invoice is emptied as it is cancelled)
MarkCancelled_emptied(invoice) ==
    [invoice EXCEPT !.status = "cancelled",
                    !.notes = @ \o <<"product_substitution">>,
                    !.total_amount = 0, !.tax_amount = 0, !.items = << >>]

\* the writes to the previous invoice: its status, and a remark added to its
\* notes
MarkCancelled(invoice) ==
    [invoice EXCEPT !.status = "cancelled",
                    !.notes = @ \o <<"product_substitution">>]

\* (faulty variant: the previous invoice is left as it is)
CancelOldInvoice_kept(table) == table

\* replace-product marks that invoice CANCELLED before it creates the new one
CancelOldInvoice(table) ==
    LET old_invoice == ActiveOrderInvoice(table)
    IN IF old_invoice = 0 THEN table
       ELSE [table EXCEPT ![old_invoice] = MarkCancelled(@)]

\* the OrderSubstitute of the line that names the product (0: none)
FindSubstitute(subs, line_id, substitute_product_code) ==
    First({i \in 1..Len(subs) :
              /\ subs[i].line_id = line_id
              /\ subs[i].substitute_product_code = substitute_product_code})

\* a database session with no request in progress
Idle == [op |-> "idle"]

Message(sender_type, sender_id) ==
    [sender_type |-> sender_type, sender_id |-> sender_id]

\* ------------------------------------------------------------------- Init
Init ==
    /\ products = Products
    /\ orders = << >>
    /\ claims = << >>
    /\ sessions = [s \in 1..MaxSessions |-> Idle]

\* ---------------------------------------------------------------- actions
\* DELETE /admin/products/{product_code}
delete_product(p) ==
    /\ p \in products
    /\ Cardinality(Products \ products) < MaxDeleted
    /\ products' = products \ {p}
    /\ UNCHANGED <<orders, claims, sessions>>

\* POST /customer/orders/
place_order(customer, cart) ==
    LET kept == SelectSeq(cart, LAMBDA it : it.product_code \in products)
        lines == [i \in 1..Len(kept) |->
                    [product_code |-> kept[i].product_code,
                     ordered_qty |-> kept[i].quantity,
                     line_status |-> "OK"]]
        subs == Flatten([i \in 1..Len(kept) |->
                    [k \in 1..Len(kept[i].substitutes) |->
                        [line_id |-> i,
                         substitute_product_code |->
                             kept[i].substitutes[k].substitute_product_code,
                         priority |-> kept[i].substitutes[k].priority,
                         is_used |-> FALSE]]])
    IN /\ Len(orders) < MaxOrders
       /\ InvoiceCount < MaxInvoices
       /\ TrackingCount < MaxTracking
       /\ cart # << >>
       /\ orders' = Append(orders,
              [customer_id |-> customer, status |-> "placed",
               lines |-> lines, subs |-> subs, changes |-> << >>,
               tracking |-> << [status |-> "placed", updated_by |-> "customer"] >>,
               messages |-> << >>,
               invoices |-> << OrderInvoice(lines, products, << >>) >>])
       /\ UNCHANGED <<products, claims, sessions>>

\* PUT /admin/orders/{order_id}/status
update_order_status(order_id, status, admin) ==
    /\ order_id \in 1..Len(orders)
    /\ TrackingCount < MaxTracking
    /\ status = "waiting_for_customer_action" => MessageCount < MaxMessages
    /\ orders' = [orders EXCEPT
           ![order_id].status = status,
           ![order_id].tracking =
               Append(@, [status |-> status, updated_by |-> admin]),
           ![order_id].messages =
               IF status = "waiting_for_customer_action"
                 THEN Append(@, Message("admin", admin)) ELSE @,
           ![order_id].invoices =
               IF status = "cancelled"
                 THEN VoidInvoices(@, "order_cancellation") ELSE @]
    /\ UNCHANGED <<products, claims, sessions>>

\* PUT /customer/orders/{order_id}/cancel
cancel_order(order_id, customer) ==
    /\ order_id \in 1..Len(orders)
    /\ orders[order_id].customer_id = customer
    /\ orders[order_id].status # "cancelled"
    /\ orders[order_id].status # "delivered"
    /\ TrackingCount < MaxTracking
    /\ MessageCount < MaxMessages
    /\ orders' = [orders EXCEPT
           ![order_id].status = "cancelled",
           ![order_id].tracking =
               Append(@, [status |-> "cancelled", updated_by |-> customer]),
           ![order_id].invoices = VoidInvoices(@, "order_cancellation"),
           ![order_id].messages = Append(@, Message("customer", customer))]
    /\ UNCHANGED <<products, claims, sessions>>

\* the MODIFICATION invoice for the price difference, with its one InvoiceItem
ModificationInvoice(substitute_product_code, old_code, ordered_qty) ==
    LET price_diff ==
            (Price(substitute_product_code) - Price(old_code)) * ordered_qty
    IN [invoice_type |-> "modification", status |-> "pending",
        total_amount |-> Abs(price_diff),
        tax_amount |-> Vat(Abs(price_diff)),
        items |-> << [product_code |-> substitute_product_code,
                      quantity |-> ordered_qty,
                      unit_price |-> Price(substitute_product_code) - Price(old_code),
                      total_price |-> price_diff] >>,
        notes |-> <<"price_adjustment">>]

\* (faulty variant: the line is rewritten and the invoices are left as they are)
RegenerateInvoices_skipped(table, new_invoice, mod_invoice, price_diff) ==
    table

\* the order's invoices after a substitution: the live ORDER invoice cancelled,
\* the regenerated one added, and a MODIFICATION invoice when the prices differ
RegenerateInvoices(table, new_invoice, mod_invoice, price_diff) ==
    IF price_diff # 0
      THEN CancelOldInvoice(table) \o <<new_invoice, mod_invoice>>
      ELSE Append(CancelOldInvoice(table), new_invoice)

\* POST /admin/orders/{order_id}/replace-product
replace_product_with_substitute(order_id, line_id, substitute_product_code, admin) ==
    /\ order_id \in 1..Len(orders)
    /\ line_id \in 1..Len(orders[order_id].lines)
    /\ LET order == orders[order_id]
           order_line == order.lines[line_id]
           order_substitute ==
               FindSubstitute(order.subs, line_id, substitute_product_code)
           old_code == order_line.product_code
           price_diff ==
               (Price(substitute_product_code) - Price(old_code)) * order_line.ordered_qty
           new_lines ==
               [order.lines EXCEPT ![line_id].product_code = substitute_product_code,
                                   ![line_id].line_status = "REPLACED"]
           new_invoice == OrderInvoice(new_lines, products, <<"regenerated">>)
           mod_invoice ==
               ModificationInvoice(substitute_product_code, old_code,
                                   order_line.ordered_qty)
       IN /\ order_substitute # 0
          /\ substitute_product_code \in products
          /\ old_code \in products
          /\ InvoiceCount + (IF price_diff # 0 THEN 2 ELSE 1) <= MaxInvoices
          /\ MessageCount < MaxMessages
          /\ orders' = [orders EXCEPT
                 ![order_id].changes =
                     Append(@, [line_id |-> line_id,
                                old_product_code |-> old_code,
                                new_product_code |-> substitute_product_code,
                                change_reason |-> "shortage",
                                confirmed_by |-> admin]),
                 ![order_id].lines = new_lines,
                 ![order_id].subs[order_substitute].is_used = TRUE,
                 ![order_id].invoices =
                     RegenerateInvoices(@, new_invoice, mod_invoice, price_diff),
                 ![order_id].messages = Append(@, Message("admin", admin))]
          /\ UNCHANGED <<products, claims, sessions>>

\* ------------------------------------------------------------ claim side
\* AI_Services.claim_processor.process_claim: None, or a ClaimResult.
\* Confidence is in percent.
NoResult == [none |-> TRUE, decision |-> "", confidence |-> 0, summary |-> ""]

ClaimResult(decision, summary, confidence) ==
    [none |-> FALSE, decision |-> decision, confidence |-> confidence,
     summary |-> summary]

Clamp(c) == IF c < 0 THEN 0 ELSE IF c > 100 THEN 100 ELSE c

process_claim(response) ==
    CASE response.kind \in {"no_api_key", "api_error", "not_an_object"} -> NoResult
      [] response.kind = "json" ->
           ClaimResult(
               IF response.decision \in {"approved", "rejected", "manual_review_needed"}
                 THEN response.decision ELSE "manual_review_needed",
               "summary", Clamp(response.confidence))
      [] response.kind = "text" ->
           ClaimResult(
               IF response.mentions_approved THEN "approved"
               ELSE IF response.mentions_rejected THEN "rejected"
               ELSE "manual_review_needed",
               "response_text", 50)

\* 10 % of the order value at current lines and prices, at least 1.0
DefaultRefund(order_id) ==
    IF order_id \in 1..Len(orders)
      THEN LET amount == LinesTotal(orders[order_id].lines, products) \div 10
           IN IF amount < 1000 THEN 1000 ELSE amount
      ELSE 1000

\* (faulty variant: VAT is charged on the refund)
RefundInvoice_taxed(refund_amount, note) ==
    [invoice_type |-> "refund", status |-> "pending",
     total_amount |-> refund_amount, tax_amount |-> Vat(refund_amount),
     items |-> << [product_code |-> "", quantity |-> 1,
                   unit_price |-> refund_amount, total_price |-> refund_amount] >>,
     notes |-> <<note>>]

\* a REFUND invoice with its one InvoiceItem
RefundInvoice(refund_amount, note) ==
    [invoice_type |-> "refund", status |-> "pending",
     total_amount |-> refund_amount, tax_amount |-> 0,
     items |-> << [product_code |-> "", quantity |-> 1,
                   unit_price |-> refund_amount, total_price |-> refund_amount] >>,
     notes |-> <<note>>]

\* the claim's REFUND invoice, whatever its status (0: none)
ExistingRefund(table) ==
    First({i \in 1..Len(table) : table[i].invoice_type = "refund"})

\* (faulty variant: no look-up of an existing REFUND invoice)
ApproveInvoices_duplicate(table, refund_amount) ==
    Append(table, RefundInvoice(refund_amount, "approved"))

\* issue the refund: create the invoice, or update the existing one in place
ApproveInvoices(table, refund_amount) ==
    LET existing_invoice == ExistingRefund(table)
    IN IF existing_invoice = 0
         THEN Append(table, RefundInvoice(refund_amount, "approved"))
       ELSE IF table[existing_invoice].total_amount # refund_amount
         THEN [table EXCEPT
                 ![existing_invoice].total_amount = refund_amount,
                 ![existing_invoice].items =
                     IF @ = << >> THEN @
                     ELSE [@ EXCEPT ![1].unit_price = refund_amount,
                                    ![1].total_price = refund_amount]]
       ELSE table

\* str.strip() on a sequence of characters
RECURSIVE LStrip(_)
LStrip(r) == IF r # << >> /\ Head(r) = " " THEN LStrip(Tail(r)) ELSE r

RECURSIVE RStrip(_)
RStrip(r) ==
    IF r # << >> /\ r[Len(r)] = " " THEN RStrip(SubSeq(r, 1, Len(r) - 1)) ELSE r

Strip(r) == RStrip(LStrip(r))

\* (faulty variant: the order's status is not part of the query)
DeliveredOrder_any_status(customer, order_id) ==
    First({o \in 1..Len(orders) :
              o = order_id /\ orders[o].customer_id = customer})

\* the order with that id, if it is the customer's and DELIVERED (0: none)
DeliveredOrder(customer, order_id) ==
    First({o \in 1..Len(orders) :
              /\ o = order_id
              /\ orders[o].customer_id = customer
              /\ orders[o].status = "delivered"})

\* (faulty variant: the claim is committed as created, status OPEN, and with
\* no ClaimLine)
db_claim_open(customer, order_id, description, files) ==
    [order_id |-> order_id, customer_id |-> customer,
     status |-> "open", credit_amount |-> NoAmount,
     handled_by |-> "", rejection_reason |-> << >>,
     claim_lines |-> << >>,
     claim_attachments |->
         [i \in 1..Len(files) |->
             [file_type |-> IF files[i] = "image" THEN "IMAGE" ELSE "VIDEO"]],
     processing |-> [ai_processed |-> FALSE, ai_confidence |-> NoAmount,
                     ai_result |-> "", requires_manual_review |-> FALSE,
                     reviewed_by |-> ""],
     messages |-> << >>,
     invoices |-> << >>,
     task |-> "scheduled"]

\* the Claim with its ClaimLine, ClaimAttachment and ClaimProcessing rows as
\* the handler commits them, and the triage task it then schedules
db_claim(customer, order_id, description, files) ==
    [order_id |-> order_id, customer_id |-> customer,
     status |-> "ai_processing", credit_amount |-> NoAmount,
     handled_by |-> "", rejection_reason |-> << >>,
     claim_lines |-> << [product_code |-> "", reported_issue |-> description] >>,
     claim_attachments |->
         [i \in 1..Len(files) |->
             [file_type |-> IF files[i] = "image" THEN "IMAGE" ELSE "VIDEO"]],
     processing |-> [ai_processed |-> FALSE, ai_confidence |-> NoAmount,
                     ai_result |-> "", requires_manual_review |-> FALSE,
                     reviewed_by |-> ""],
     messages |-> << >>,
     invoices |-> << >>,
     task |-> "scheduled"]

\* POST /customer/claims/
create_claim(customer, order_id, description, files) ==
    /\ description # ""
    /\ DeliveredOrder(customer, order_id) # 0
    /\ Len(claims) < MaxClaims
    /\ claims' = Append(claims, db_claim(customer, order_id, description, files))
    /\ UNCHANGED <<products, orders, sessions>>

\* background task process_claim_ai: the AI collaborator returned None
TriageFallback(claim_id) ==
    /\ claims' = [claims EXCEPT
           ![claim_id].status = "manual_review",
           ![claim_id].processing.requires_manual_review = TRUE,
           ![claim_id].processing.ai_processed = TRUE,
           ![claim_id].processing.ai_confidence = 0,
           ![claim_id].processing.ai_result = "error_manual_review_needed",
           ![claim_id].task = "done"]
    /\ UNCHANGED <<products, orders, sessions>>

\* ... decision manual_review_needed: message_content is never assigned on
\* this branch, building the Message raises, and the handler rolls back
TriageManualReview(claim_id) ==
    /\ claims' = [claims EXCEPT ![claim_id].task = "done"]
    /\ UNCHANGED <<products, orders, sessions>>

\* (faulty variant: the credit is recomputed although a refund exists)
TriageCredit_recomputed(existing_invoice, credit_amount, refund_amount) ==
    refund_amount

\* the claim's credit_amount after an AI approval: assigned only on the
\* branch that creates the REFUND invoice
TriageCredit(existing_invoice, credit_amount, refund_amount) ==
    IF existing_invoice = 0 THEN refund_amount ELSE credit_amount

\* ... decision approved
TriageApproved(claim_id, ai_result) ==
    LET claim == claims[claim_id]
        existing_invoice == ExistingRefund(claim.invoices)
        refund_amount == DefaultRefund(claim.order_id)
    IN /\ claims' = [claims EXCEPT
              ![claim_id].status = "approved",
              ![claim_id].handled_by = "AI_AGENT",
              ![claim_id].credit_amount =
                  TriageCredit(existing_invoice, @, refund_amount),
              ![claim_id].processing.ai_processed = TRUE,
              ![claim_id].processing.ai_confidence = ai_result.confidence,
              ![claim_id].processing.ai_result = ai_result.decision,
              ![claim_id].processing.requires_manual_review = FALSE,
              ![claim_id].invoices =
                  IF existing_invoice = 0
                    THEN Append(@, RefundInvoice(refund_amount, "ai_approved"))
                    ELSE @,
              ![claim_id].messages = Append(@, Message("ai", "ai_agent")),
              ![claim_id].task = "done"]
       /\ UNCHANGED <<products, orders, sessions>>

\* ... decision rejected
TriageRejected(claim_id, ai_result) ==
    /\ claims' = [claims EXCEPT
           ![claim_id].status = "rejected",
           ![claim_id].handled_by = "AI_AGENT",
           ![claim_id].rejection_reason = <<ai_result.summary>>,
           ![claim_id].processing.ai_processed = TRUE,
           ![claim_id].processing.ai_confidence = ai_result.confidence,
           ![claim_id].processing.ai_result = ai_result.decision,
           ![claim_id].processing.requires_manual_review = FALSE,
           ![claim_id].messages = Append(@, Message("ai", "ai_agent")),
           ![claim_id].task = "done"]
    /\ UNCHANGED <<products, orders, sessions>>

process_claim_ai(claim_id, response) ==
    /\ claim_id \in 1..Len(claims)
    /\ claims[claim_id].task = "scheduled"
    /\ LET ai_result == process_claim(response)
       IN IF ai_result.none THEN TriageFallback(claim_id)
          ELSE IF ai_result.decision = "manual_review_needed"
                 THEN TriageManualReview(claim_id)
          ELSE IF ai_result.decision = "approved"
                 THEN TriageApproved(claim_id, ai_result)
          ELSE TriageRejected(claim_id, ai_result)

\* (faulty variant: the amount is always recomputed from the order)
RefundAmount_recomputed(refund_param, order_id) ==
    DefaultRefund(order_id)

\* the amount of an approval: the parameter, or the default when it is None
RefundAmount(refund_param, order_id) ==
    IF refund_param = NoAmount THEN DefaultRefund(order_id) ELSE refund_param

\* POST /admin/claims/{claim_id}/approve
approve_claim(claim_id, refund_param, admin) ==
    /\ claim_id \in 1..Len(claims)
    /\ MessageCount < MaxMessages
    /\ LET claim == claims[claim_id]
           refund_amount == RefundAmount(refund_param, claim.order_id)
       IN /\ claims' = [claims EXCEPT
                 ![claim_id].status = "approved",
                 ![claim_id].handled_by = admin,
                 ![claim_id].credit_amount = refund_amount,
                 ![claim_id].processing.reviewed_by = admin,
                 ![claim_id].processing.requires_manual_review = FALSE,
                 ![claim_id].invoices = ApproveInvoices(@, refund_amount),
                 ![claim_id].messages = Append(@, Message("admin", admin))]
          /\ UNCHANGED <<products, orders, sessions>>

\* (faulty variant: the reason is not stripped before the test)
ReasonGiven_unstripped(reason) ==
    reason # << >>

\* the handler's test of the reason: not empty, and not only white space
ReasonGiven(reason) ==
    /\ reason # << >>
    /\ Strip(reason) # << >>

\* POST /admin/claims/{claim_id}/reject
reject_claim(claim_id, reason, admin) ==
    /\ ReasonGiven(reason)
    /\ claim_id \in 1..Len(claims)
    /\ MessageCount < MaxMessages
    /\ claims' = [claims EXCEPT
           ![claim_id].status = "rejected",
           ![claim_id].handled_by = admin,
           ![claim_id].rejection_reason = reason,
           ![claim_id].processing.reviewed_by = admin,
           ![claim_id].processing.requires_manual_review = FALSE,
           ![claim_id].messages = Append(@, Message("admin", admin))]
    /\ UNCHANGED <<products, orders, sessions>>

Next ==
    \/ \E p \in Products : delete_product(p)
    \/ \E c \in Customers : \E cart \in CartOf(c) : place_order(c, cart)
    \/ \E o \in 1..MaxOrders, s \in StatusInputs, a \in Admins :
          update_order_status(o, s, a)
    \/ \E o \in 1..MaxOrders, c \in Customers : cancel_order(o, c)
    \/ \E o \in 1..MaxOrders, l \in 1..MaxLines, p \in Products, a \in Admins :
          replace_product_with_substitute(o, l, p, a)
    \/ \E c \in Customers, o \in 1..MaxOrders, d \in Descriptions, f \in Uploads :
          create_claim(c, o, d, f)
    \/ \E k \in 1..MaxClaims, r \in AIResponses : process_claim_ai(k, r)
    \/ \E k \in 1..MaxClaims, amt \in RefundInputs, a \in Admins :
          approve_claim(k, amt, a)
    \/ \E k \in 1..MaxClaims, r \in ReasonInputs, a \in Admins :
          reject_claim(k, r, a)

Spec == Init /\ [][Next]_vars

\* The order routers alone (customer/orders.py, admin/orders.py) with the
\* catalogue maintenance they depend on.  No claim handler writes an order,
\* an order line, a substitute, a tracking entry or an order's invoices, so
\* the orders table evolves under these requests as it does under Next.
NextOrders ==
    \/ \E p \in Products : delete_product(p)
    \/ \E c \in Customers : \E cart \in CartOf(c) : place_order(c, cart)
    \/ \E o \in 1..MaxOrders, s \in StatusInputs, a \in Admins :
          update_order_status(o, s, a)
    \/ \E o \in 1..MaxOrders, c \in Customers : cancel_order(o, c)
    \/ \E o \in 1..MaxOrders, l \in 1..MaxLines, p \in Products, a \in Admins :
          replace_product_with_substitute(o, l, p, a)

SpecOrders == Init /\ [][NextOrders]_vars

\* The claim routers alone (customer/claims.py, admin/claims.py) on orders
\* that were placed and delivered.  The claim handlers read of an order its
\* owner, its status and the value of its lines, and write none of them; the
\* orders are those of the carts with positive quantities, whose values lie
\* above and below the floor of the default refund.
Priced(cart) == \A i \in 1..Len(cart) : cart[i].quantity > 0

NextClaims ==
    \/ \E c \in Customers : \E cart \in CartOf(c) :
          Priced(cart) /\ place_order(c, cart)
    \/ \E o \in 1..MaxOrders, a \in Admins : update_order_status(o, "delivered", a)
    \/ \E c \in Customers, o \in 1..MaxOrders, d \in Descriptions, f \in Uploads :
          create_claim(c, o, d, f)
    \/ \E k \in 1..MaxClaims, r \in AIResponses : process_claim_ai(k, r)
    \/ \E k \in 1..MaxClaims, amt \in RefundInputs, a \in Admins :
          approve_claim(k, amt, a)
    \/ \E k \in 1..MaxClaims, r \in ReasonInputs, a \in Admins :
          reject_claim(k, r, a)

SpecClaims == Init /\ [][NextClaims]_vars

\* ------------------------------------------------- interleaved requests
\* Each request runs in its own session (autoflush off): its queries read
\* the committed rows, its changes reach the database at flush/commit.  A
\* request is split where another request's commit can fall between its
\* reads and its writes.

\* The unit of work writes a column only when the request changed the value
\* it had loaded; otherwise the committed value stays.
Written(current, loaded, new) == IF new = loaded THEN current ELSE new

\* UPDATE of the invoices the request had loaded as not CANCELLED
VoidLoaded(table, loaded, note) ==
    [i \in 1..Len(table) |->
        IF i <= Len(loaded) /\ loaded[i].status # "cancelled"
          THEN [table[i] EXCEPT !.status = "cancelled",
                                !.notes = loaded[i].notes \o <<note>>]
          ELSE table[i]]

\* approve_claim up to and including the query for an existing REFUND invoice
approve_claim_check(s, claim_id, refund_param, admin) ==
    /\ sessions[s] = Idle
    /\ claim_id \in 1..Len(claims)
    /\ MessageCount < MaxMessages
    /\ sessions' = [sessions EXCEPT ![s] =
           [op |-> "approve_claim", claim_id |-> claim_id, admin |-> admin,
            refund_amount |->
                IF refund_param = NoAmount
                  THEN DefaultRefund(claims[claim_id].order_id)
                  ELSE refund_param,
            claim |-> claims[claim_id]]]
    /\ UNCHANGED <<products, orders, claims>>

\* ... its insert or update of the invoice, and its commit
approve_claim_commit(s) ==
    /\ sessions[s].op = "approve_claim"
    /\ LET req == sessions[s]
           claim_id == req.claim_id
           loaded == req.claim
           existing_invoice == ExistingRefund(loaded.invoices)
           refund_amount == req.refund_amount
       IN claims' = [claims EXCEPT
              ![claim_id].status = Written(@, loaded.status, "approved"),
              ![claim_id].handled_by = Written(@, loaded.handled_by, req.admin),
              ![claim_id].credit_amount =
                  Written(@, loaded.credit_amount, refund_amount),
              ![claim_id].processing.reviewed_by =
                  Written(@, loaded.processing.reviewed_by, req.admin),
              ![claim_id].processing.requires_manual_review =
                  Written(@, loaded.processing.requires_manual_review, FALSE),
              ![claim_id].invoices =
                  IF existing_invoice = 0
                    THEN Append(@, RefundInvoice(refund_amount, "approved"))
                  ELSE IF loaded.invoices[existing_invoice].total_amount # refund_amount
                    THEN [@ EXCEPT
                            ![existing_invoice].total_amount = refund_amount,
                            ![existing_invoice].items =
                                [@ EXCEPT ![1].unit_price = refund_amount,
                                          ![1].total_price = refund_amount]]
                  ELSE @,
              ![claim_id].messages = Append(@, Message("admin", req.admin))]
    /\ sessions' = [sessions EXCEPT ![s] = Idle]
    /\ UNCHANGED <<products, orders>>

\* replace-product up to the flush: all its checks and reads
replace_product_read(s, order_id, line_id, substitute_product_code, admin) ==
    /\ sessions[s] = Idle
    /\ order_id \in 1..Len(orders)
    /\ line_id \in 1..Len(orders[order_id].lines)
    /\ LET order == orders[order_id]
           order_substitute ==
               FindSubstitute(order.subs, line_id, substitute_product_code)
       IN /\ order_substitute # 0
          /\ substitute_product_code \in products
          /\ order.lines[line_id].product_code \in products
          /\ InvoiceCount + 2 <= MaxInvoices
          /\ MessageCount < MaxMessages
          /\ sessions' = [sessions EXCEPT ![s] =
                 [op |-> "replace_product", order_id |-> order_id,
                  line_id |-> line_id,
                  substitute_product_code |-> substitute_product_code,
                  admin |-> admin, order_substitute |-> order_substitute,
                  order |-> order]]
    /\ UNCHANGED <<products, orders, claims>>

\* ... its flush and commit
replace_product_commit(s) ==
    /\ sessions[s].op = "replace_product"
    /\ LET req == sessions[s]
           order_id == req.order_id
           line_id == req.line_id
           code == req.substitute_product_code
           loaded == req.order
           order_line == loaded.lines[line_id]
           old_code == order_line.product_code
           price_diff == (Price(code) - Price(old_code)) * order_line.ordered_qty
           new_lines == [loaded.lines EXCEPT ![line_id].product_code = code,
                                             ![line_id].line_status = "REPLACED"]
           old_invoice == ActiveOrderInvoice(loaded.invoices)
           new_invoice == OrderInvoice(new_lines, products, <<"regenerated">>)
           mod_invoice == ModificationInvoice(code, old_code, order_line.ordered_qty)
       IN orders' = [orders EXCEPT
              ![order_id].changes =
                  Append(@, [line_id |-> line_id,
                             old_product_code |-> old_code,
                             new_product_code |-> code,
                             change_reason |-> "shortage",
                             confirmed_by |-> req.admin]),
              ![order_id].lines[line_id].product_code = Written(@, old_code, code),
              ![order_id].lines[line_id].line_status =
                  Written(@, order_line.line_status, "REPLACED"),
              ![order_id].subs[req.order_substitute].is_used =
                  Written(@, loaded.subs[req.order_substitute].is_used, TRUE),
              ![order_id].invoices =
                  (IF old_invoice = 0 THEN @
                   ELSE [@ EXCEPT
                           ![old_invoice].status = "cancelled",
                           ![old_invoice].notes =
                               loaded.invoices[old_invoice].notes
                                   \o <<"product_substitution">>])
                  \o (IF price_diff # 0 THEN <<new_invoice, mod_invoice>>
                      ELSE <<new_invoice>>),
              ![order_id].messages = Append(@, Message("admin", req.admin))]
    /\ sessions' = [sessions EXCEPT ![s] = Idle]
    /\ UNCHANGED <<products, claims>>

\* cancel_order up to its query for the invoices to void
cancel_order_read(s, order_id, customer) ==
    /\ sessions[s] = Idle
    /\ order_id \in 1..Len(orders)
    /\ orders[order_id].customer_id = customer
    /\ orders[order_id].status # "cancelled"
    /\ orders[order_id].status # "delivered"
    /\ TrackingCount < MaxTracking
    /\ MessageCount < MaxMessages
    /\ sessions' = [sessions EXCEPT ![s] =
           [op |-> "cancel_order", order_id |-> order_id, customer |-> customer,
            order |-> orders[order_id]]]
    /\ UNCHANGED <<products, orders, claims>>

\* ... its commit
cancel_order_commit(s) ==
    /\ sessions[s].op = "cancel_order"
    /\ LET req == sessions[s]
           order_id == req.order_id
       IN orders' = [orders EXCEPT
              ![order_id].status = "cancelled",
              ![order_id].tracking =
                  Append(@, [status |-> "cancelled", updated_by |-> req.customer]),
              ![order_id].invoices =
                  VoidLoaded(@, req.order.invoices, "order_cancellation"),
              ![order_id].messages = Append(@, Message("customer", req.customer))]
    /\ sessions' = [sessions EXCEPT ![s] = Idle]
    /\ UNCHANGED <<products, claims>>

\* update_order_status up to its query for the invoices to void
update_order_status_read(s, order_id, status, admin) ==
    /\ sessions[s] = Idle
    /\ order_id \in 1..Len(orders)
    /\ TrackingCount < MaxTracking
    /\ status = "waiting_for_customer_action" => MessageCount < MaxMessages
    /\ sessions' = [sessions EXCEPT ![s] =
           [op |-> "update_order_status", order_id |-> order_id,
            status |-> status, admin |-> admin, order |-> orders[order_id]]]
    /\ UNCHANGED <<products, orders, claims>>

\* ... its commit
update_order_status_commit(s) ==
    /\ sessions[s].op = "update_order_status"
    /\ LET req == sessions[s]
           order_id == req.order_id
       IN orders' = [orders EXCEPT
              ![order_id].status = Written(@, req.order.status, req.status),
              ![order_id].tracking =
                  Append(@, [status |-> req.status, updated_by |-> req.admin]),
              ![order_id].messages =
                  IF req.status = "waiting_for_customer_action"
                    THEN Append(@, Message("admin", req.admin)) ELSE @,
              ![order_id].invoices =
                  IF req.status = "cancelled"
                    THEN VoidLoaded(@, req.order.invoices, "order_cancellation")
                    ELSE @]
    /\ sessions' = [sessions EXCEPT ![s] = Idle]
    /\ UNCHANGED <<products, claims>>

Sessions == 1..MaxSessions

\* concurrent administrators approving claims
NextApprovals ==
    \/ \E c \in Customers : \E cart \in CartOf(c) : place_order(c, cart)
    \/ \E o \in 1..MaxOrders, a \in Admins : update_order_status(o, "delivered", a)
    \/ \E c \in Customers, o \in 1..MaxOrders, d \in Descriptions, f \in Uploads :
          create_claim(c, o, d, f)
    \/ \E s \in Sessions, k \in 1..MaxClaims, amt \in RefundInputs, a \in Admins :
          approve_claim_check(s, k, amt, a)
    \/ \E s \in Sessions : approve_claim_commit(s)

SpecApprovals == Init /\ [][NextApprovals]_vars

\* concurrent substitutions, cancellations and status changes on orders
NextRegeneration ==
    \/ \E c \in Customers : \E cart \in CartOf(c) : place_order(c, cart)
    \/ \E s \in Sessions, o \in 1..MaxOrders, l \in 1..MaxLines,
          p \in Products, a \in Admins :
          replace_product_read(s, o, l, p, a)
    \/ \E s \in Sessions : replace_product_commit(s)
    \/ \E s \in Sessions, o \in 1..MaxOrders, c \in Customers :
          cancel_order_read(s, o, c)
    \/ \E s \in Sessions : cancel_order_commit(s)
    \/ \E s \in Sessions, o \in 1..MaxOrders, st \in StatusInputs, a \in Admins :
          update_order_status_read(s, o, st, a)
    \/ \E s \in Sessions : update_order_status_commit(s)

SpecRegeneration == Init /\ [][NextRegeneration]_vars

\* ------------------------------------------------------------- properties
Orders == 1..Len(orders)

Claims == 1..Len(claims)

ItemsTotal(inv) == SumSeq([i \in 1..Len(inv.items) |-> inv.items[i].total_price])

SumHolds(table) ==
    \A i \in 1..Len(table) :
        table[i].status # "cancelled" => table[i].total_amount = ItemsTotal(table[i])

LiveOrderInvoices(o) ==
    {i \in 1..Len(orders[o].invoices) :
        /\ orders[o].invoices[i].invoice_type = "order"
        /\ orders[o].invoices[i].status # "cancelled"}

LiveRefunds(table) ==
    {i \in 1..Len(table) :
        table[i].invoice_type = "refund" /\ table[i].status # "cancelled"}

\* C1: every invoice that is not CANCELLED has total_amount equal to the sum
\* of total_price over its items, for ORDER, MODIFICATION and REFUND invoices.
InvoiceSumInvariant ==
    /\ \A o \in Orders : SumHolds(orders[o].invoices)
    /\ \A k \in Claims : SumHolds(claims[k].invoices)

\* C2: under sequential requests every order has at most one invoice of type
\* ORDER whose status is not CANCELLED.
SingleActiveOrderInvoice ==
    \A o \in Orders : Cardinality(LiveOrderInvoices(o)) <= 1

\* an order whose ORDER invoice was regenerated twice
SingleActiveOrderInvoiceWitness ==
    \E o \in Orders :
        /\ Len(orders[o].changes) >= 2
        /\ Cardinality(LiveOrderInvoices(o)) = 1
        /\ \E i \in 1..Len(orders[o].invoices) :
              /\ orders[o].invoices[i].invoice_type = "order"
              /\ orders[o].invoices[i].status = "cancelled"

\* C3: an approve_claim on a claim that already has a REFUND invoice (from the
\* AI triage or an earlier approval) leaves exactly one non-cancelled REFUND
\* invoice, whose total_amount and single item equal the amount of this call.
RefundIdempotency ==
    [][\A k \in Claims, amt \in RefundInputs, a \in Admins :
          (ExistingRefund(claims[k].invoices) # 0 /\ approve_claim(k, amt, a))
          => LET amount == IF amt = NoAmount THEN DefaultRefund(claims[k].order_id)
                           ELSE amt
                 table == claims'[k].invoices
             IN /\ Cardinality(LiveRefunds(table)) = 1
                /\ \A i \in LiveRefunds(table) :
                      /\ table[i].total_amount = amount
                      /\ Len(table[i].items) = 1
                      /\ table[i].items[1].total_price = amount]_vars

\* a refund created by the AI triage at the default amount and later set to
\* 12.0 by an administrator's approval
RefundIdempotencyWitness ==
    \E k \in Claims :
        /\ Len(claims[k].invoices) = 1
        /\ claims[k].invoices[1].notes = <<"ai_approved">>
        /\ claims[k].invoices[1].total_amount = 12000
        /\ claims[k].invoices[1].items[1].total_price = 12000
        /\ claims[k].handled_by \in Admins

\* C6: a substitute that was used stays used, and no replace-product request
\* that names a used substitute succeeds.
SubstitutionMonotonicity ==
    [][/\ \A o \in Orders : \A i \in 1..Len(orders[o].subs) :
             orders[o].subs[i].is_used => orders'[o].subs[i].is_used
       /\ \A o \in Orders, l \in 1..MaxLines, p \in Products, a \in Admins :
             replace_product_with_substitute(o, l, p, a)
             => \A i \in 1..Len(orders[o].subs) :
                   (orders[o].subs[i].line_id = l
                    /\ orders[o].subs[i].substitute_product_code = p)
                   => ~orders[o].subs[i].is_used]_vars

\* C7: whenever the AI collaborator call fails (no API key, exception or
\* timeout, unparsable response) the triage ends in MANUAL_REVIEW with
\* ai_confidence 0.0, requires_manual_review and the fixed ai_result.
FailureResponses == {r \in AIResponses : r.kind # "json"}

ClaimFallbackDeterminism ==
    [][\A k \in Claims, r \in FailureResponses :
          process_claim_ai(k, r)
          => /\ claims'[k].status = "manual_review"
             /\ claims'[k].processing.ai_confidence = 0
             /\ claims'[k].processing.requires_manual_review
             /\ claims'[k].processing.ai_result = "error_manual_review_needed"]_vars

\* C8: once the background triage task of a claim has run, the claim is in
\* MANUAL_REVIEW, APPROVED or REJECTED (it has left AI_PROCESSING).
TriageLeavesAiProcessing ==
    \A k \in Claims :
        claims[k].task = "done"
        => claims[k].status \in {"manual_review", "approved", "rejected"}

\* C9: right after a successful cancellation (customer cancel_order or admin
\* update_order_status to CANCELLED) the order is CANCELLED and so is every
\* invoice of the order.
CancellationVoidsInvoices ==
    [][\A o \in Orders :
          ((\E c \in Customers : cancel_order(o, c))
           \/ (\E a \in Admins : update_order_status(o, "cancelled", a)))
          => /\ orders'[o].status = "cancelled"
             /\ \A i \in 1..Len(orders'[o].invoices) :
                   orders'[o].invoices[i].status = "cancelled"]_vars

\* an order cancelled by its customer after a substitution had regenerated
\* its invoice and added a MODIFICATION invoice
CancellationVoidsInvoicesWitness ==
    \E o \in Orders :
        /\ orders[o].status = "cancelled"
        /\ orders[o].tracking[Len(orders[o].tracking)].status = "cancelled"
        /\ orders[o].messages # << >>
        /\ orders[o].messages[Len(orders[o].messages)].sender_type = "customer"
        /\ Len(orders[o].invoices) >= 3
        /\ \E i \in 1..Len(orders[o].invoices) :
              orders[o].invoices[i].invoice_type = "modification"
        /\ \A i \in 1..Len(orders[o].invoices) :
              orders[o].invoices[i].status = "cancelled"

\* C10: an order whose status is CANCELLED has no invoice whose status is
\* other than CANCELLED.
NoCancelledOrderWithLiveInvoice ==
    \A o \in Orders :
        orders[o].status = "cancelled"
        => \A i \in 1..Len(orders[o].invoices) :
              orders[o].invoices[i].status = "cancelled"

\* C4: with interleaved approve_claim requests, whenever no approval is in
\* flight a claim that was approved has exactly one REFUND invoice, carrying
\* the amount of the last writer; two REFUND invoices never exist.
ConcurrentApprovalsOneRefund ==
    \A k \in Claims :
        LET refunds == {i \in 1..Len(claims[k].invoices) :
                           claims[k].invoices[i].invoice_type = "refund"}
        IN /\ Cardinality(refunds) <= 1
           /\ ((\A s \in Sessions : sessions[s] = Idle)
               /\ claims[k].status = "approved")
              => /\ Cardinality(refunds) = 1
                 /\ \A i \in refunds :
                       claims[k].invoices[i].total_amount = claims[k].credit_amount

\* C5: under any interleaving of replace-product calls with each other or
\* with a cancellation, an order never has more than one non-cancelled ORDER
\* invoice.
ConcurrentRegenerationSingleInvoice ==
    \A o \in Orders : \A i, j \in LiveOrderInvoices(o) : i = j

\* ---------------------------------------------- order lifecycle, intake
Terminal == {"delivered", "cancelled"}

\* C11: once an order is DELIVERED or CANCELLED no request changes its status
\* again.
TerminalOrderStatuses ==
    [][\A o \in Orders :
          orders[o].status \in Terminal => orders'[o].status = orders[o].status]_vars

\* C12: a cancel request (customer cancel_order, or admin update_order_status
\* to CANCELLED) on an order that is DELIVERED or CANCELLED leaves the order's
\* status, tracking history, invoices and messages as they were.
CancelOnTerminalRefused ==
    [][\A o \in Orders :
          (/\ orders[o].status \in Terminal
           /\ \/ \E c \in Customers : cancel_order(o, c)
              \/ \E a \in Admins : update_order_status(o, "cancelled", a))
          => /\ orders'[o].status = orders[o].status
             /\ orders'[o].tracking = orders[o].tracking
             /\ orders'[o].invoices = orders[o].invoices
             /\ orders'[o].messages = orders[o].messages]_vars

\* C13: a create-claim request succeeds only against an order that is
\* DELIVERED and belongs to the requesting customer; Claim, ClaimLine,
\* ClaimAttachment and ClaimProcessing records and the triage task come into
\* being by such a request only, so every claim was created while its order
\* was DELIVERED.
ClaimIntakeRequiresDelivered ==
    [][/\ \A c \in Customers, o \in 1..MaxOrders, d \in Descriptions, f \in Uploads :
             create_claim(c, o, d, f)
             => /\ o \in Orders
                /\ orders[o].status = "delivered"
                /\ orders[o].customer_id = c
       /\ Len(claims') # Len(claims)
          => /\ Len(claims') = Len(claims) + 1
             /\ LET claim == claims'[Len(claims')]
                IN /\ claim.order_id \in Orders
                   /\ orders[claim.order_id].status = "delivered"
                   /\ orders[claim.order_id].customer_id = claim.customer_id
       /\ \A k \in Claims :
             /\ claims'[k].order_id = claims[k].order_id
             /\ claims'[k].claim_lines = claims[k].claim_lines
             /\ claims'[k].claim_attachments = claims[k].claim_attachments
             /\ claims'[k].task = "scheduled" => claims[k].task = "scheduled"]_vars

\* a claim right after its intake, on a delivered order of its customer
ClaimIntakeRequiresDeliveredWitness ==
    \E k \in Claims :
        /\ claims[k].task = "scheduled"
        /\ claims[k].status = "ai_processing"
        /\ Len(claims[k].claim_lines) = 1
        /\ Len(claims[k].claim_attachments) = 1
        /\ orders[claims[k].order_id].status = "delivered"
        /\ orders[claims[k].order_id].customer_id = claims[k].customer_id

\* the AI collaborator's answers on which triage fails: no usable result, or
\* the decision whose branch raises
TriageFails(response) ==
    \/ process_claim(response).none
    \/ process_claim(response).decision = "manual_review_needed"

\* C14: a successful create-claim commits a Claim with status AI_PROCESSING,
\* exactly one ClaimLine holding the description and one ClaimProcessing record
\* with ai_processed and requires_manual_review false, together with the
\* scheduling of triage, so the triage task of a claim only ever starts on the
\* committed records; no step removes a claim or its line, and a failing triage
\* leaves the line, the attachments and the ClaimProcessing record in place.
IntakeCommitsBeforeTriage ==
    [][/\ \A c \in Customers, o \in 1..MaxOrders, d \in Descriptions, f \in Uploads :
             create_claim(c, o, d, f)
             => LET claim == claims'[Len(claims')]
                IN /\ Len(claims') = Len(claims) + 1
                   /\ claim.status = "ai_processing"
                   /\ Len(claim.claim_lines) = 1
                   /\ claim.claim_lines[1].reported_issue = d
                   /\ claim.processing.ai_processed = FALSE
                   /\ claim.processing.requires_manual_review = FALSE
                   /\ claim.task = "scheduled"
       /\ \A k \in 1..MaxClaims, r \in AIResponses :
             process_claim_ai(k, r)
             => /\ k \in Claims
                /\ Len(claims[k].claim_lines) = 1
                /\ claims[k].processing.ai_processed = FALSE
                /\ TriageFails(r)
                   => /\ claims'[k].claim_lines = claims[k].claim_lines
                      /\ claims'[k].claim_attachments = claims[k].claim_attachments
                      /\ claims'[k].order_id = claims[k].order_id
                      /\ claims'[k].customer_id = claims[k].customer_id
                      /\ claims'[k].processing.reviewed_by = claims[k].processing.reviewed_by
       /\ Len(claims') >= Len(claims)
       /\ \A k \in Claims : claims'[k].claim_lines = claims[k].claim_lines]_vars

\* a claim whose triage has failed on the raising branch: the task is over and
\* the records of the intake are all there, as committed
IntakeCommitsBeforeTriageWitness ==
    \E k \in Claims :
        /\ claims[k].task = "done"
        /\ claims[k].status = "ai_processing"
        /\ Len(claims[k].claim_lines) = 1
        /\ claims[k].claim_lines[1].reported_issue = "damaged"
        /\ claims[k].processing.ai_processed = FALSE
        /\ claims[k].processing.requires_manual_review = FALSE

\* C15: approve_claim with an explicit refund_amount a leaves the claim
\* APPROVED, handled by the approving admin, with credit_amount a,
\* requires_manual_review false, exactly one more Message, and a REFUND
\* invoice of the claim whose total_amount is a.
ExplicitApproval ==
    [][\A k \in 1..MaxClaims, amt \in RefundInputs \ {NoAmount}, a \in Admins :
          approve_claim(k, amt, a)
          => /\ claims'[k].status = "approved"
             /\ claims'[k].handled_by = a
             /\ claims'[k].credit_amount = amt
             /\ claims'[k].processing.requires_manual_review = FALSE
             /\ Len(claims'[k].messages) = Len(claims[k].messages) + 1
             /\ SubSeq(claims'[k].messages, 1, Len(claims[k].messages))
                    = claims[k].messages
             /\ \E i \in 1..Len(claims'[k].invoices) :
                    /\ claims'[k].invoices[i].invoice_type = "refund"
                    /\ claims'[k].invoices[i].total_amount = amt]_vars

\* a claim that triage had approved at the default amount and an admin then
\* approved with an explicit one: both messages are there, the refund carries
\* the explicit amount
ExplicitApprovalWitness ==
    \E k \in Claims :
        /\ claims[k].status = "approved"
        /\ claims[k].handled_by \in Admins
        /\ claims[k].credit_amount = 12000
        /\ claims[k].processing.ai_processed
        /\ claims[k].processing.ai_result = "approved"
        /\ Len(claims[k].messages) = 2
        /\ \E i \in 1..Len(claims[k].invoices) :
               /\ claims[k].invoices[i].invoice_type = "refund"
               /\ claims[k].invoices[i].total_amount = 12000

\* max(1.0, 10 % of the value of the order's lines at current prices)
ExpectedDefault(order_id) ==
    LET tenth == LinesTotal(orders[order_id].lines, products) \div 10
    IN IF tenth > 1000 THEN tenth ELSE 1000

\* C16: an approval without an explicit amount, by approve_claim with
\* refund_amount omitted or by the AI triage, leaves the claim's credit_amount
\* and its REFUND invoice at max(1.0, 10 % of the order's value at its current
\* lines).
DefaultRefundAmount ==
    [][\A k \in Claims :
          (\/ \E a \in Admins : approve_claim(k, NoAmount, a)
           \/ \E r \in AIResponses :
                 /\ process_claim_ai(k, r)
                 /\ process_claim(r).none = FALSE
                 /\ process_claim(r).decision = "approved")
          => /\ claims'[k].status = "approved"
             /\ claims'[k].credit_amount = ExpectedDefault(claims[k].order_id)
             /\ \E i \in 1..Len(claims'[k].invoices) :
                    /\ claims'[k].invoices[i].invoice_type = "refund"
                    /\ claims'[k].invoices[i].total_amount
                           = ExpectedDefault(claims[k].order_id)]_vars

Blank(reason) == \A i \in 1..Len(reason) : reason[i] = " "

\* C17: no reject_claim request with an empty or whitespace-only reason
\* succeeds, and no step leaves a claim with a new rejection_reason that is
\* blank; a reject_claim with a non-empty reason sets status REJECTED, stores
\* the reason as rejection_reason and appends exactly one Message to the claim.
RejectionNeedsReason ==
    [][/\ \A k \in 1..MaxClaims, r \in ReasonInputs, a \in Admins :
             reject_claim(k, r, a)
             => /\ ~Blank(r)
                /\ claims'[k].status = "rejected"
                /\ claims'[k].rejection_reason = r
                /\ Len(claims'[k].messages) = Len(claims[k].messages) + 1
                /\ SubSeq(claims'[k].messages, 1, Len(claims[k].messages))
                       = claims[k].messages
       /\ \A k \in Claims :
             claims'[k].rejection_reason # claims[k].rejection_reason
             => ~Blank(claims'[k].rejection_reason)]_vars

\* a claim an admin has rejected with a reason, after its triage had fallen
\* back to manual review
RejectionNeedsReasonWitness ==
    \E k \in Claims :
        /\ claims[k].status = "rejected"
        /\ claims[k].handled_by \in Admins
        /\ claims[k].rejection_reason = <<"o", "k">>
        /\ claims[k].processing.ai_result = "error_manual_review_needed"
        /\ Len(claims[k].messages) = 1

\* ------------------------------------------------------------ substitution
\* a step has written one of the records only a substitution writes: an
\* OrderChange, a line, a substitute, or a further invoice of the order
SubstitutionRecordWritten(o) ==
    \/ orders'[o].changes # orders[o].changes
    \/ orders'[o].lines # orders[o].lines
    \/ orders'[o].subs # orders[o].subs
    \/ Len(orders'[o].invoices) # Len(orders[o].invoices)

\* all the effects of one substitution on order o, from before to after
SubstitutionComplete(o) ==
    LET before == orders[o]
        after == orders'[o]
        n == Len(before.invoices)
    IN /\ Len(after.changes) = Len(before.changes) + 1
       /\ SubSeq(after.changes, 1, Len(before.changes)) = before.changes
       /\ LET change == after.changes[Len(after.changes)]
              l == change.line_id
              differ == (Price(change.new_product_code) - Price(change.old_product_code))
                            * before.lines[l].ordered_qty # 0
          IN /\ l \in 1..Len(before.lines)
             /\ change.old_product_code = before.lines[l].product_code
             /\ after.lines =
                    [before.lines EXCEPT ![l].product_code = change.new_product_code,
                                         ![l].line_status = "REPLACED"]
             /\ \E i \in 1..Len(before.subs) :
                    /\ before.subs[i].line_id = l
                    /\ before.subs[i].substitute_product_code = change.new_product_code
                    /\ after.subs = [before.subs EXCEPT ![i].is_used = TRUE]
             /\ Len(after.invoices) = n + (IF differ THEN 2 ELSE 1)
             /\ \A i \in 1..n :
                    /\ ~(after.invoices[i].invoice_type = "order"
                          /\ after.invoices[i].status # "cancelled")
                    /\ after.invoices[i].invoice_type = before.invoices[i].invoice_type
                    /\ after.invoices[i].total_amount = before.invoices[i].total_amount
             /\ after.invoices[n + 1].invoice_type = "order"
             /\ after.invoices[n + 1].status = "pending"
             /\ after.invoices[n + 1].total_amount = LinesTotal(after.lines, products)
             /\ differ => /\ after.invoices[n + 2].invoice_type = "modification"
                           /\ after.invoices[n + 2].status = "pending"
       /\ Len(after.messages) = Len(before.messages) + 1
       /\ SubSeq(after.messages, 1, Len(before.messages)) = before.messages

Unused(o, l) ==
    {i \in 1..Len(orders[o].subs) :
        orders[o].subs[i].line_id = l /\ ~orders[o].subs[i].is_used}

\* C19: every successful substitution on a line applies the line's unused
\* substitute of lowest priority value, and none succeeds on a line that has
\* no unused substitute.
SubstituteSelectionRule ==
    [][\A o \in Orders, l \in 1..MaxLines, p \in Products, a \in Admins :
          replace_product_with_substitute(o, l, p, a)
          => /\ Unused(o, l) # {}
             /\ \E i \in Unused(o, l) :
                    /\ orders[o].subs[i].substitute_product_code = p
                    /\ \A j \in Unused(o, l) :
                           orders[o].subs[i].priority <= orders[o].subs[j].priority]_vars

\* ------------------------------------------------------------ tracking
\* the step appends exactly one entry, this one, to the order's tracking
Tracked(o, status, actor) ==
    orders'[o].tracking =
        Append(orders[o].tracking, [status |-> status, updated_by |-> actor])

\* C20: order placement and every successful status change (update_order_status,
\* also to the status the order has, and cancel_order) append exactly one
\* OrderTracking entry with the new status and the actor; no step changes or
\* removes an entry; so after every step, of requests one after the other or
\* overlapping, the last tracking entry of each order has the order's status.
TrackingMirrorsStatus ==
    [][/\ \A c \in Customers : \A cart \in CartOf(c) :
             place_order(c, cart)
             => LET order == orders'[Len(orders')]
                IN /\ Len(orders') = Len(orders) + 1
                   /\ order.status = "placed"
                   /\ Len(order.tracking) = 1
                   /\ order.tracking[1].status = "placed"
                   /\ order.tracking[1].updated_by = "customer"
       /\ \A o \in Orders :
             /\ \A s \in StatusInputs, a \in Admins :
                   update_order_status(o, s, a)
                   => orders'[o].status = s /\ Tracked(o, s, a)
             /\ \A c \in Customers :
                   cancel_order(o, c)
                   => orders'[o].status = "cancelled" /\ Tracked(o, "cancelled", c)
             /\ orders'[o].status # orders[o].status
                   => Len(orders'[o].tracking) = Len(orders[o].tracking) + 1
             /\ Len(orders'[o].tracking) >= Len(orders[o].tracking)
             /\ SubSeq(orders'[o].tracking, 1, Len(orders[o].tracking))
                    = orders[o].tracking
       /\ \A o \in 1..Len(orders') :
             /\ orders'[o].tracking # << >>
             /\ orders'[o].tracking[Len(orders'[o].tracking)].status
                    = orders'[o].status]_vars

\* ------------------------------------------------------------ triage outcomes
\* the triage of claim k runs on a result of the AI collaborator with this
\* decision
TriageDecides(k, decision) ==
    \E r \in AIResponses :
        /\ process_claim_ai(k, r)
        /\ process_claim(r).none = FALSE
        /\ process_claim(r).decision = decision

\* C21: a triage whose AI result has decision manual_review_needed commits
\* status MANUAL_REVIEW, requires_manual_review true, ai_processed true and
\* the returned ai_confidence, and creates no REFUND invoice.
TriageManualReviewOutcome ==
    [][\A k \in Claims, r \in AIResponses :
          (/\ process_claim_ai(k, r)
           /\ process_claim(r).none = FALSE
           /\ process_claim(r).decision = "manual_review_needed")
          => /\ claims'[k].status = "manual_review"
             /\ claims'[k].processing.requires_manual_review = TRUE
             /\ claims'[k].processing.ai_processed = TRUE
             /\ claims'[k].processing.ai_confidence = process_claim(r).confidence
             /\ claims'[k].invoices = claims[k].invoices]_vars

\* C22: a triage with decision approved on a claim that has no REFUND invoice
\* commits status APPROVED, handled_by AI_AGENT, requires_manual_review false,
\* credit_amount at the default refund, one REFUND invoice with tax_amount 0
\* and a single InvoiceItem of that amount, and one AI Message; with decision
\* rejected it commits status REJECTED, handled_by AI_AGENT, rejection_reason
\* equal to the AI summary, one Message and no invoice.
TriageDecisionOutcome ==
    [][\A k \in Claims :
          LET before == claims[k]
              after == claims'[k]
              amount == ExpectedDefault(before.order_id)
              one_message ==
                  /\ Len(after.messages) = Len(before.messages) + 1
                  /\ SubSeq(after.messages, 1, Len(before.messages)) = before.messages
                  /\ after.messages[Len(after.messages)].sender_type = "ai"
          IN /\ (TriageDecides(k, "approved") /\ ExistingRefund(before.invoices) = 0)
                => /\ after.status = "approved"
                   /\ after.handled_by = "AI_AGENT"
                   /\ after.processing.requires_manual_review = FALSE
                   /\ after.credit_amount = amount
                   /\ Len(after.invoices) = Len(before.invoices) + 1
                   /\ LET invoice == after.invoices[Len(after.invoices)]
                      IN /\ invoice.invoice_type = "refund"
                         /\ invoice.total_amount = amount
                         /\ invoice.tax_amount = 0
                         /\ Len(invoice.items) = 1
                         /\ invoice.items[1].total_price = amount
                   /\ one_message
             /\ \A r \in AIResponses :
                   (/\ process_claim_ai(k, r)
                    /\ process_claim(r).none = FALSE
                    /\ process_claim(r).decision = "rejected")
                   => /\ after.status = "rejected"
                      /\ after.handled_by = "AI_AGENT"
                      /\ after.rejection_reason = <<process_claim(r).summary>>
                      /\ after.invoices = before.invoices
                      /\ one_message]_vars

\* a claim the triage has approved: the refund at the default amount and the
\* AI's message are all it has
TriageDecisionOutcomeWitness ==
    \E k \in Claims :
        /\ claims[k].status = "approved"
        /\ claims[k].handled_by = "AI_AGENT"
        /\ claims[k].task = "done"
        /\ Len(claims[k].invoices) = 1
        /\ claims[k].invoices[1].total_amount = claims[k].credit_amount
        /\ claims[k].invoices[1].notes = <<"ai_approved">>
        /\ Len(claims[k].messages) = 1
        /\ claims[k].messages[1].sender_type = "ai"

\* ------------------------------------------------------------ invoice contents
\* the order has seen its placement and substitutions only: no status change
\* or cancellation (each leaves a tracking entry), no product deleted
PlacedAndSubstitutedOnly(o) ==
    /\ products = Products
    /\ Len(orders[o].tracking) = 1

\* C23: on an order that was placed and then only substituted, the
\* non-cancelled ORDER invoice is PENDING, has one InvoiceItem per current line
\* with the line's product code, ordered_qty and unit price, its total_amount
\* is the sum of ordered_qty x price over the lines and its tax_amount 24 % of
\* the total.
ActiveInvoiceMirrorsLines ==
    \A o \in Orders :
        PlacedAndSubstitutedOnly(o)
        => LET lines == orders[o].lines
               value == SumSeq([l \in 1..Len(lines) |->
                           lines[l].ordered_qty * Price(lines[l].product_code)])
           IN /\ LiveOrderInvoices(o) # {}
              /\ \A i \in LiveOrderInvoices(o) :
                    LET invoice == orders[o].invoices[i]
                    IN /\ invoice.status = "pending"
                       /\ Len(invoice.items) = Len(lines)
                       /\ \A l \in 1..Len(lines) :
                             /\ invoice.items[l].product_code = lines[l].product_code
                             /\ invoice.items[l].quantity = lines[l].ordered_qty
                             /\ invoice.items[l].unit_price = Price(lines[l].product_code)
                       /\ invoice.total_amount = value
                       /\ invoice.tax_amount * 100 = value * 24

\* the order of 10 x 1.50 after its substitution by the 2.00 product: the live
\* ORDER invoice is at 20.00 with 4.80 tax
ActiveInvoiceMirrorsLinesWitness ==
    \E o \in Orders :
        /\ PlacedAndSubstitutedOnly(o)
        /\ Len(orders[o].changes) = 1
        /\ orders[o].lines[1].product_code = "p2"
        /\ orders[o].lines[1].ordered_qty = 10
        /\ \E i \in LiveOrderInvoices(o) :
               /\ orders[o].invoices[i].total_amount = 20000
               /\ orders[o].invoices[i].tax_amount = 4800

\* the MODIFICATION invoices a step adds to order o
NewModifications(o) ==
    {i \in (Len(orders[o].invoices) + 1)..Len(orders'[o].invoices) :
        orders'[o].invoices[i].invoice_type = "modification"}

\* C24: a successful substitution creates a MODIFICATION invoice exactly when
\* the substitute's unit price differs from the original product's; its
\* total_amount is |new_price - old_price| x ordered_qty and its single
\* InvoiceItem has total_price (new_price - old_price) x ordered_qty, sign
\* kept.
ModificationInvoiceRule ==
    [][\A o \in Orders, l \in 1..MaxLines, p \in Products, a \in Admins :
          replace_product_with_substitute(o, l, p, a)
          => LET old_price == Price(orders[o].lines[l].product_code)
                 qty == orders[o].lines[l].ordered_qty
                 signed == (Price(p) - old_price) * qty
                 magnitude == IF Price(p) > old_price THEN (Price(p) - old_price) * qty
                              ELSE (old_price - Price(p)) * qty
             IN /\ (Price(p) # old_price) <=> (NewModifications(o) # {})
                /\ Cardinality(NewModifications(o)) <= 1
                /\ \A i \in NewModifications(o) :
                      /\ orders'[o].invoices[i].total_amount = magnitude
                      /\ Len(orders'[o].invoices[i].items) = 1
                      /\ orders'[o].invoices[i].items[1].total_price = signed]_vars

\* C25: a substitution leaves the previous ORDER invoice's total_amount,
\* tax_amount and InvoiceItems as they were, sets its status CANCELLED and adds
\* to its notes, leaves every other invoice of the order alone and puts the new
\* contents in an invoice of its own; and no step of any request changes the
\* status of a CANCELLED invoice.
RegenerationReplaces ==
    [][\A o \in Orders :
          LET before == orders[o].invoices
              after == orders'[o].invoices
          IN /\ Len(after) >= Len(before)
             /\ \A i \in 1..Len(before) :
                   before[i].status = "cancelled" => after[i].status = "cancelled"
             /\ \A l \in 1..MaxLines, p \in Products, a \in Admins :
                   replace_product_with_substitute(o, l, p, a)
                   => /\ \A i \in 1..Len(before) :
                            /\ after[i].invoice_type = before[i].invoice_type
                            /\ after[i].total_amount = before[i].total_amount
                            /\ after[i].tax_amount = before[i].tax_amount
                            /\ after[i].items = before[i].items
                            /\ IF i \in LiveOrderInvoices(o)
                                 THEN /\ after[i].status = "cancelled"
                                      /\ Len(after[i].notes) = Len(before[i].notes) + 1
                                      /\ SubSeq(after[i].notes, 1, Len(before[i].notes))
                                             = before[i].notes
                                 ELSE after[i] = before[i]
                      /\ Len(after) > Len(before)
                      /\ after[Len(before) + 1].invoice_type = "order"
                      /\ after[Len(before) + 1].status = "pending"
                      /\ after[Len(before) + 1].total_amount
                            = LinesTotal(orders'[o].lines, products)]_vars

\* an order substituted twice: both earlier ORDER invoices are CANCELLED with
\* the amounts they were created with, the third is live
RegenerationReplacesWitness ==
    \E o \in Orders :
        /\ Len(orders[o].changes) = 2
        /\ \E i, j \in 1..Len(orders[o].invoices) :
               /\ i < j
               /\ orders[o].invoices[i].invoice_type = "order"
               /\ orders[o].invoices[i].status = "cancelled"
               /\ orders[o].invoices[i].total_amount = 15000
               /\ orders[o].invoices[i].items # << >>
               /\ orders[o].invoices[j].invoice_type = "order"
               /\ orders[o].invoices[j].status = "cancelled"
               /\ orders[o].invoices[j].total_amount = 20000
        /\ LiveOrderInvoices(o) # {}

\* ------------------------------------------------------------ claim processing
\* an admin's approve_claim or reject_claim request on claim k
HumanReview(k) ==
    \/ \E amt \in RefundInputs, a \in Admins : approve_claim(k, amt, a)
    \/ \E r \in ReasonInputs, a \in Admins : reject_claim(k, r, a)

\* C26: ai_processed never goes back from true to false, and an approve_claim
\* or reject_claim on a claim that a human has already reviewed does not write
\* the claim's ClaimProcessing record again.
ProcessingWrittenOnce ==
    [][\A k \in Claims :
          /\ claims[k].processing.ai_processed => claims'[k].processing.ai_processed
          /\ (claims[k].processing.reviewed_by # "" /\ HumanReview(k))
                => claims'[k].processing = claims[k].processing]_vars

\* ------------------------------------------------------------ audit of rewrites
\* the step adds one OrderChange to order o, and that record describes what
\* the step did to its line
RewriteAudited(o) ==
    LET before == orders[o]
        after == orders'[o]
        change == after.changes[Len(after.changes)]
    IN /\ Len(after.changes) = Len(before.changes) + 1
       /\ SubSeq(after.changes, 1, Len(before.changes)) = before.changes
       /\ change.line_id \in 1..Len(before.lines)
       /\ change.old_product_code = before.lines[change.line_id].product_code
       /\ change.new_product_code = after.lines[change.line_id].product_code
       /\ change.change_reason = "shortage"
       /\ change.confirmed_by \in Admins
       /\ after.lines[change.line_id].line_status = "REPLACED"
       /\ \A l \in 1..Len(before.lines) :
              l # change.line_id
                => after.lines[l].product_code = before.lines[l].product_code

\* C27: every step either leaves an order's OrderChange records and its lines'
\* product codes as they are, or adds exactly one OrderChange whose
\* old_product_code is the line's code just before the step and whose
\* new_product_code is the line's code just after it, with change_reason
\* shortage, confirmed_by an admin and the line REPLACED.
EveryRewriteAudited ==
    [][\A o \in Orders :
          \/ /\ orders'[o].changes = orders[o].changes
             /\ \A l \in 1..Len(orders[o].lines) :
                    orders'[o].lines[l].product_code = orders[o].lines[l].product_code
          \/ RewriteAudited(o)]_vars

\* ------------------------------------------------------------ late triage
\* C28: when the triage task of a claim that an admin has already approved or
\* rejected completes, with any decision or with the failure fallback, the
\* claim keeps the admin's status, handled_by and rejection_reason, and
\* requires_manual_review stays false.
HumanDecisionSurvivesTriage ==
    [][\A k \in Claims :
          (/\ claims[k].handled_by \in Admins
           /\ claims[k].task = "scheduled"
           /\ \E response \in AIResponses : process_claim_ai(k, response))
            => /\ claims'[k].status = claims[k].status
               /\ claims'[k].handled_by = claims[k].handled_by
               /\ claims'[k].rejection_reason = claims[k].rejection_reason
               /\ ~claims'[k].processing.requires_manual_review]_vars

\* ------------------------------------------------------------ refunds and status
\* C29: a claim whose status is REJECTED has no REFUND invoice with a status
\* other than CANCELLED.
NoRefundOnRejectedClaim ==
    \A k \in Claims :
        claims[k].status = "rejected" => LiveRefunds(claims[k].invoices) = {}

\* the REFUND invoices of a claim, whatever their status
Refunds(table) ==
    {i \in 1..Len(table) : table[i].invoice_type = "refund"}

\* C30: with requests run one after another, a claim whose status is APPROVED
\* has exactly one REFUND invoice, that invoice has exactly one InvoiceItem
\* with quantity 1, and its total_amount equals the claim's credit_amount.
ApprovedClaimBackedByRefund ==
    \A k \in Claims :
        claims[k].status = "approved"
          => /\ Cardinality(Refunds(claims[k].invoices)) = 1
             /\ \A i \in Refunds(claims[k].invoices) :
                    /\ Len(claims[k].invoices[i].items) = 1
                    /\ claims[k].invoices[i].items[1].quantity = 1
                    /\ claims[k].invoices[i].total_amount = claims[k].credit_amount

\* an AI approval that arrived after an admin's approval with another amount
\* than the default
ApprovedClaimBackedByRefundWitness ==
    \E k \in Claims :
        /\ claims[k].status = "approved"
        /\ claims[k].handled_by = "AI_AGENT"
        /\ claims[k].processing.reviewed_by \in Admins
        /\ claims[k].credit_amount = 12000
        /\ DefaultRefund(claims[k].order_id) # 12000

====
